---------------------------- MODULE Spec2Model ----------------------------
(***************************************************************************)
(* Model of src/src/error.rs: the AstError taxonomy, the span accessor,   *)
(* the parse-failure bridge, the span-attachment combinators and the       *)
(* diagnostic renderer.                                                    *)
(*                                                                         *)
(* One behaviour follows one fallible AST-construction block: the block    *)
(* produces a Result, the result leaves zero or more enclosing span scopes *)
(* (`.at(span)` calls and `spanned!` blocks, innermost first), and an      *)
(* error is finally consumed by get_span or by pretty_diagnostic.          *)
(***************************************************************************)
EXTENDS Integers, Sequences, FiniteSets, TLC

(* ------------------------------ bounds -------------------------------- *)
\* byte offsets range over 0..MaxPos
MaxPos == 1
\* file identifiers range over 0..MaxFile
MaxFile == 1
\* number of enclosing span scopes a result may leave
MaxDepth == 2
\* number of files a registry handed to the renderer may hold
MaxRegistry == 1

(* ------------------------------ values -------------------------------- *)
\* Option<T>
None == [some |-> FALSE]
Some(x) == [some |-> TRUE, val |-> x]

\* Result<T, AstError>
Ok(v) == [ok |-> TRUE, val |-> v]
Err(e) == [ok |-> FALSE, err |-> e]

\* Span(start, end, file_id): span.0, span.1, span.2 are span[1], span[2], span[3]
Span(start, end, file_id) == <<start, end, file_id>>

Positions == 0..MaxPos
FileIds == 0..MaxFile
Spans == {Span(a, b, f) : a \in Positions, b \in Positions, f \in FileIds}
WellFormedSpans == {s \in Spans : s[1] <= s[2]}
OptSpans == {None} \cup {Some(s) : s \in WellFormedSpans}
ExprTypes == {"List", "Symbol"}
Tokens == {"LPren"}
LexicalErrors == {"LexicalError"}
Expected == {<<"symbol">>}
Values == {"v1", "v2"}

\* the variants of AstError
InvalidDefinition(span) == [tag |-> "InvalidDefinition", span |-> span]
MissingNode(span, t) == [tag |-> "MissingNode", span |-> span, expected |-> t]
WrongExprType(span, x, y) ==
    [tag |-> "WrongExprType", span |-> span, expected |-> x, actual |-> y]
ParseError(file_id, source) ==
    [tag |-> "ParseError", file_id |-> file_id, source |-> source]

\* the shapes of lalrpop_util::ParseError; a token is (start, tok, end)
InvalidToken(location) == [shape |-> "InvalidToken", location |-> location]
UnrecognizedEOF(location, expected) ==
    [shape |-> "UnrecognizedEOF", location |-> location, expected |-> expected]
UnrecognizedToken(token, expected) ==
    [shape |-> "UnrecognizedToken", token |-> token, expected |-> expected]
ExtraToken(token) == [shape |-> "ExtraToken", token |-> token]
User(error) == [shape |-> "User", error |-> error]

\* tokens as the lexer hands them to the grammar engine: start <= end
SpannedTokens == {tk \in Positions \X Tokens \X Positions : tk[1] <= tk[3]}

ParseFailures ==
    {InvalidToken(l) : l \in Positions}
    \cup {UnrecognizedEOF(l, x) : l \in Positions, x \in Expected}
    \cup {UnrecognizedToken(tk, x) : tk \in SpannedTokens, x \in Expected}
    \cup {ExtraToken(tk) : tk \in SpannedTokens}
    \cup {User(e) : e \in LexicalErrors}

SimpleErrors ==
    {InvalidDefinition(s) : s \in OptSpans}
    \cup {MissingNode(s, t) : s \in OptSpans, t \in ExprTypes}
    \cup {WrongExprType(s, x, y) : s \in OptSpans, x \in ExprTypes, y \in ExprTypes}

ParseErrors ==
    {ParseError(f, p) : f \in {None} \cup {Some(i) : i \in FileIds}, p \in ParseFailures}

AstErrors == SimpleErrors \cup ParseErrors

IsSimple(e) == e.tag \in {"InvalidDefinition", "MissingNode", "WrongExprType"}

\* codespan_reporting's SimpleFiles: file ids are 0..n-1 in insertion order;
\* a registry is the sequence of the lengths of the registered texts
Registries ==
    UNION {[1..n -> Positions] : n \in 0..MaxRegistry}

(* ------------------------- error.rs functions ------------------------- *)
\* the #[error("...")] message templates, as format!("{}", self) renders them
Display(self) ==
    CASE self.tag = "InvalidDefinition" -> <<"Definition invalid">>
      [] self.tag = "MissingNode" ->
            <<"Expected a ", self.expected, ", but got nothing">>
      [] self.tag = "WrongExprType" ->
            <<"Wrong type of expression: Expected ", self.expected,
              " but got ", self.actual>>
      [] self.tag = "ParseError" -> <<"Parse error: ", self.source>>

get_parse_error_span_eof_none(file_id, err) ==
    CASE err.shape = "InvalidToken" ->
            Some(Span(err.location, err.location, file_id))
      [] err.shape = "UnrecognizedEOF" -> None
      [] err.shape = "UnrecognizedToken" ->
            Some(Span(err.token[1], err.token[3], file_id))
      [] err.shape = "ExtraToken" ->
            Some(Span(err.token[1], err.token[3], file_id))
      [] err.shape = "User" -> None

get_parse_error_span_swapped(file_id, err) ==
    CASE err.shape = "InvalidToken" ->
            Some(Span(err.location, err.location, file_id))
      [] err.shape = "UnrecognizedEOF" ->
            Some(Span(err.location, err.location, file_id))
      [] err.shape = "UnrecognizedToken" ->
            Some(Span(err.token[3], err.token[1], file_id))
      [] err.shape = "ExtraToken" ->
            Some(Span(err.token[3], err.token[1], file_id))
      [] err.shape = "User" -> None

get_parse_error_span(file_id, err) ==
    CASE err.shape = "InvalidToken" ->
            Some(Span(err.location, err.location, file_id))
      [] err.shape = "UnrecognizedEOF" ->
            Some(Span(err.location, err.location, file_id))
      [] err.shape = "UnrecognizedToken" ->
            Some(Span(err.token[1], err.token[3], file_id))
      [] err.shape = "ExtraToken" ->
            Some(Span(err.token[1], err.token[3], file_id))
      [] err.shape = "User" -> None

get_span_unwrap_or_default(self) ==
    CASE self.tag = "InvalidDefinition" -> self.span
      [] self.tag = "MissingNode" -> self.span
      [] self.tag = "WrongExprType" -> self.span
      [] self.tag = "ParseError" ->
            get_parse_error_span(IF self.file_id.some THEN self.file_id.val ELSE 0,
                                 self.source)

get_span(self) ==
    CASE self.tag = "InvalidDefinition" -> self.span
      [] self.tag = "MissingNode" -> self.span
      [] self.tag = "WrongExprType" -> self.span
      [] self.tag = "ParseError" ->
            \* file_id.and_then(|id| get_parse_error_span(id, source))
            IF self.file_id.some
            THEN get_parse_error_span(self.file_id.val, self.source)
            ELSE None

\* diagnostic::Label::primary(file_id, range), range = start..end (half-open)
LabelPrimary(file_id, start, end) ==
    [style |-> "Primary", file_id |-> file_id, range |-> [start |-> start, end |-> end]]
LabelSecondary(file_id, start, end) ==
    [style |-> "Secondary", file_id |-> file_id, range |-> [start |-> start, end |-> end]]

\* diagnostic::Diagnostic::error().with_message(message), no labels yet
DiagnosticError(message) ==
    [severity |-> "Error", message |-> message, labels |-> <<>>]
with_labels(diag, labels) == [diag EXCEPT !.labels = diag.labels \o labels]

\* whether a span addresses text the registry holds: file span.2 is
\* registered and the range ends within its text
InRegistry(span, files) ==
    /\ span[3] + 1 \in DOMAIN files
    /\ span[2] <= files[span[3] + 1]

pretty_diagnostic_secondary(self, files) ==
    LET diag == DiagnosticError(Display(self))
        span == get_span(self)
    IN  IF span.some
        THEN with_labels(diag, <<LabelSecondary(span.val[3], span.val[1], span.val[2])>>)
        ELSE diag

pretty_diagnostic_checked(self, files) ==
    LET diag == DiagnosticError(Display(self))
        span == get_span(self)
    IN  IF span.some /\ InRegistry(span.val, files)
        THEN with_labels(diag, <<LabelPrimary(span.val[3], span.val[1], span.val[2])>>)
        ELSE diag

pretty_diagnostic(self, files) ==
    LET diag == DiagnosticError(Display(self))
        span == get_span(self)
    IN  IF span.some
        THEN with_labels(diag, <<LabelPrimary(span.val[3], span.val[1], span.val[2])>>)
        ELSE diag

from_parse_error(file_id, err) == ParseError(Some(file_id), err)

spanned_overwrite(span, err) ==
    CASE err.tag = "InvalidDefinition" -> InvalidDefinition(Some(span))
      [] err.tag = "MissingNode" -> MissingNode(Some(span), err.expected)
      [] err.tag = "WrongExprType" ->
            WrongExprType(Some(span), err.expected, err.actual)
      [] OTHER -> err

spanned_stamps_file(span, err) ==
    CASE err.tag = "InvalidDefinition" /\ err.span = None ->
            InvalidDefinition(Some(span))
      [] err.tag = "MissingNode" /\ err.span = None ->
            MissingNode(Some(span), err.expected)
      [] err.tag = "WrongExprType" /\ err.span = None ->
            WrongExprType(Some(span), err.expected, err.actual)
      [] err.tag = "ParseError" /\ err.file_id = None ->
            ParseError(Some(span[3]), err.source)
      [] OTHER -> err

spanned_missing_arm(span, err) ==
    CASE err.tag = "InvalidDefinition" /\ err.span = None ->
            InvalidDefinition(Some(span))
      [] err.tag = "MissingNode" /\ err.span = None ->
            MissingNode(Some(span), err.expected)
      [] OTHER -> err

spanned(span, err) ==
    CASE err.tag = "InvalidDefinition" /\ err.span = None ->
            InvalidDefinition(Some(span))
      [] err.tag = "MissingNode" /\ err.span = None ->
            MissingNode(Some(span), err.expected)
      [] err.tag = "WrongExprType" /\ err.span = None ->
            WrongExprType(Some(span), err.expected, err.actual)
      [] OTHER -> err

\* Option::ok_or
ok_or(opt, err) == IF opt.some THEN Ok(opt.val) ELSE Err(err)

or_missing_wrong_kind(self, t) ==
    ok_or(self, MissingNode(None, CHOOSE k \in ExprTypes : k # t))

or_missing(self, t) == ok_or(self, MissingNode(None, t))

at_overwrite(self, span) ==
    IF self.ok THEN self ELSE Err(spanned_overwrite(span, self.err))

\* self.map_err(|err| spanned(span, err))
at(self, span) ==
    IF self.ok THEN self ELSE Err(spanned(span, self.err))

\* spanned!($span, $block): `result` is the outcome of `try { $block }`
spanned_macro(span, result) == at(result, span)

(* ------------------------------- state -------------------------------- *)
VARIABLES
    pc,           \* "block": the block is still running; "scoped": its result
                  \* is leaving the enclosing scopes; "done": the error was consumed
    res,          \* the Result in flight (None while the block runs)
    orig,         \* the Result as the block produced it
    call,         \* how the block produced it
    depth,        \* number of span scopes the result has left so far
    inner,        \* span of the innermost scope (the first one left)
    outerDiffers, \* some outer scope left so far had a span other than `inner`
    got,          \* what get_span returned, once called
    diag,         \* what pretty_diagnostic returned, once called
    registry      \* the file registry pretty_diagnostic was handed

vars == <<pc, res, orig, call, depth, inner, outerDiffers, got, diag, registry>>

Init ==
    /\ pc = "block"
    /\ res = None
    /\ orig = None
    /\ call = [op |-> "none"]
    /\ depth = 0
    /\ inner = None
    /\ outerDiffers = FALSE
    /\ got = None
    /\ diag = None
    /\ registry = <<>>

\* the block's outcome `r`, produced by the operation `c`
Produce(r, c) ==
    /\ pc = "block"
    /\ res' = Some(r)
    /\ orig' = Some(r)
    /\ call' = c
    /\ pc' = "scoped"
    /\ UNCHANGED <<depth, inner, outerDiffers, got, diag, registry>>

\* the block runs to its end and yields a value
BlockOk ==
    \E v \in Values : Produce(Ok(v), [op |-> "value"])

\* the block fails with an error value built at the failure site
BlockErr ==
    \E e \in AstErrors : Produce(Err(e), [op |-> "error"])

\* the block ends in `optional.or_missing(kind)`
OrMissing ==
    \E opt \in {None} \cup {Some(v) : v \in Values}, t \in ExprTypes :
        Produce(or_missing(opt, t), [op |-> "or_missing", opt |-> opt, kind |-> t])

\* the block fails with a parse failure bridged by from_parse_error
FromParseError ==
    \E f \in FileIds, p \in ParseFailures :
        Produce(Err(from_parse_error(f, p)),
                [op |-> "from_parse_error", file_id |-> f, err |-> p])

\* bookkeeping shared by the two ways a result leaves a scope
LeaveScope(span) ==
    /\ depth' = depth + 1
    /\ inner' = IF depth = 0 THEN Some(span) ELSE inner
    /\ outerDiffers' = (outerDiffers \/ (depth > 0 /\ Some(span) # inner))
    /\ UNCHANGED <<pc, orig, call, got, diag, registry>>

\* result.at(span)
At ==
    /\ pc = "scoped"
    /\ depth < MaxDepth
    /\ \E span \in WellFormedSpans :
        /\ res' = Some(at(res.val, span))
        /\ LeaveScope(span)

\* the result leaves a spanned!(span, ...) block
SpannedBlock ==
    /\ pc = "scoped"
    /\ depth < MaxDepth
    /\ \E span \in WellFormedSpans :
        /\ res' = Some(spanned_macro(span, res.val))
        /\ LeaveScope(span)

\* a caller asks the error for its span
GetSpan ==
    /\ pc = "scoped"
    /\ ~res.val.ok
    /\ got' = Some(get_span(res.val.err))
    /\ pc' = "done"
    /\ UNCHANGED <<res, orig, call, depth, inner, outerDiffers, diag, registry>>

\* the renderer turns the error into a diagnostic
PrettyDiagnostic ==
    /\ pc = "scoped"
    /\ ~res.val.ok
    /\ \E files \in Registries :
        /\ diag' = Some(pretty_diagnostic(res.val.err, files))
        /\ registry' = files
    /\ pc' = "done"
    /\ UNCHANGED <<res, orig, call, depth, inner, outerDiffers, got>>

Next ==
    \/ BlockOk
    \/ BlockErr
    \/ OrMissing
    \/ FromParseError
    \/ At
    \/ SpannedBlock
    \/ GetSpan
    \/ PrettyDiagnostic

Spec == Init /\ [][Next]_vars

(* ------------------------------ properties ---------------------------- *)
\* the block failed with a simple-variant error whose span field is None
OrigUnpositioned ==
    /\ orig.some
    /\ ~orig.val.ok
    /\ IsSimple(orig.val.err)
    /\ orig.val.err.span = None

\* the block failed with a simple-variant error that already carries a span
OrigPositioned ==
    /\ orig.some
    /\ ~orig.val.ok
    /\ IsSimple(orig.val.err)
    /\ orig.val.err.span.some

\* the block failed with a ParseError
OrigParseError ==
    /\ orig.some
    /\ ~orig.val.ok
    /\ orig.val.err.tag = "ParseError"

\* an error is in flight
InFlightErr == res.some /\ ~res.val.ok

\* C1 (attach-once): an unpositioned simple-variant error that has passed
\* through one or more attachments s1, ..., sn equals the result of the
\* first attachment alone: same variant, same payload, span field Some(s1).
AttachOnce ==
    (OrigUnpositioned /\ depth >= 1) =>
        res.val = Err([orig.val.err EXCEPT !.span = inner])

AttachOnceWitness ==
    /\ OrigUnpositioned
    /\ call.op = "error"
    /\ depth >= 2
    /\ outerDiffers
    /\ res.val.err.span = inner

\* C2 (attach-identity): an error that is a simple variant already carrying
\* a span, or a ParseError (any file_id, any embedded failure), is returned
\* unchanged by every attachment.
AttachIdentity ==
    (OrigPositioned \/ OrigParseError) => res = orig

AttachIdentityWitness ==
    /\ OrigPositioned
    /\ depth >= 1
    /\ inner # orig.val.err.span
    /\ res = orig

\* C3 as stated: every error (of any of the four variants) that has left an
\* enclosing span scope is positioned: its get_span() is Some.
ScopePositionsEveryError ==
    (InFlightErr /\ depth >= 1) => get_span(res.val.err).some

\* C3 amended: an error that has left an enclosing span scope is positioned
\* unless it is a ParseError without file_id or with a lexer-originated
\* (User) failure; such an error leaves the scope exactly as it entered it.
ScopePositionsAllButSpanlessParseErrors ==
    (InFlightErr /\ depth >= 1) =>
        LET e == res.val.err
            spanless == /\ e.tag = "ParseError"
                        /\ (e.file_id = None \/ e.source.shape = "User")
        IN  /\ get_span(e).some <=> ~spanless
            /\ spanless => res = orig

ScopePositionsWitness ==
    /\ OrigUnpositioned
    /\ orig.val.err.tag = "WrongExprType"
    /\ depth >= 1
    /\ get_span(res.val.err) = inner

\* C4 (scoped-block composition): after any chain of nested scopes around a
\* block that failed with an unpositioned simple-variant error, the error
\* carries the span of the innermost scope, never an outer one; a successful
\* block value passes through every scope unchanged.
ScopedBlockComposition ==
    (orig.some /\ depth >= 1) =>
        /\ orig.val.ok => res = orig
        /\ OrigUnpositioned => get_span(res.val.err) = inner

ScopedBlockCompositionWitness ==
    /\ call.op = "or_missing"
    /\ ~orig.val.ok
    /\ depth >= 2
    /\ outerDiffers
    /\ get_span(res.val.err) = inner

\* C5 (span derivation table): for a ParseError with file id f, the span is
\* (loc, loc, f) for invalid-token and unexpected-end-of-input at loc,
\* (start, end, f) for unrecognized-token and extra-token over (start, end),
\* and None for a lexer-originated (User) failure; every shape has a result.
SpanDerivationTable ==
    (pc = "done" /\ got.some /\ res.val.err.tag = "ParseError"
        /\ res.val.err.file_id.some) =>
        LET f == res.val.err.file_id.val
            p == res.val.err.source
        IN  /\ p.shape \in {"InvalidToken", "UnrecognizedEOF", "UnrecognizedToken",
                            "ExtraToken", "User"}
            /\ p.shape \in {"InvalidToken", "UnrecognizedEOF"} =>
                    got.val = Some(<<p.location, p.location, f>>)
            /\ p.shape \in {"UnrecognizedToken", "ExtraToken"} =>
                    got.val = Some(<<p.token[1], p.token[3], f>>)
            /\ p.shape = "User" => got.val = None

SpanDerivationWitness ==
    /\ pc = "done"
    /\ res.val.err.tag = "ParseError"
    /\ res.val.err.source.shape = "UnrecognizedEOF"
    /\ got.some
    /\ got.val.some
    /\ got.val.val[1] = got.val.val[2]

\* C6 (get_span): get_span returns the carried span field for the three
\* simple variants; for ParseError it returns None when file_id is None or
\* nothing is derivable, else the derived span tagged with that file_id; so
\* get_span(from_parse_error(f, failure)) is the derivation for (f, failure).
GetSpanContract ==
    (pc = "done" /\ got.some) =>
        LET e == res.val.err
        IN  /\ IsSimple(e) => got.val = e.span
            /\ (e.tag = "ParseError" /\ e.file_id = None) => got.val = None
            /\ (e.tag = "ParseError" /\ e.file_id.some) =>
                    /\ got.val = get_parse_error_span(e.file_id.val, e.source)
                    /\ got.val.some => got.val.val[3] = e.file_id.val
            /\ call.op = "from_parse_error" =>
                    got.val = get_parse_error_span(call.file_id, call.err)

GetSpanWitness ==
    /\ pc = "done"
    /\ call.op = "from_parse_error"
    /\ call.err.shape = "UnrecognizedToken"
    /\ call.err.token[1] < call.err.token[3]
    /\ depth >= 1
    /\ got = Some(Some(<<call.err.token[1], call.err.token[3], call.file_id>>))

\* C7 (renderer label count): the diagnostic has zero labels when get_span()
\* is None, and exactly one label when get_span() is Some(Span(a, b, f)): a
\* primary label over the byte range [a, b) of file f.
RendererLabelCount ==
    (pc = "done" /\ diag.some) =>
        LET sp == get_span(res.val.err)
        IN  /\ sp = None => diag.val.labels = <<>>
            /\ sp.some =>
                diag.val.labels =
                    << [style |-> "Primary", file_id |-> sp.val[3],
                        range |-> [start |-> sp.val[1], end |-> sp.val[2]]] >>

RendererLabelCountWitness ==
    /\ pc = "done"
    /\ diag.some
    /\ Len(diag.val.labels) = 1
    /\ diag.val.labels[1].range.start < diag.val.labels[1].range.end
    /\ InRegistry(get_span(res.val.err).val, registry)

\* the rendered error has a span the registry cannot resolve: its file is
\* not registered, or its range ends beyond that file's text
OutOfRangeRendered ==
    /\ pc = "done"
    /\ diag.some
    /\ get_span(res.val.err).some
    /\ ~InRegistry(get_span(res.val.err).val, registry)

\* C8 as stated: for an error whose span names a file that is not in the
\* registry, or a range beyond that file's text, pretty_diagnostic returns a
\* label-free diagnostic.
RendererDropsOutOfRangeLabel ==
    OutOfRangeRendered => diag.val.labels = <<>>

\* C8 amended: for such an error pretty_diagnostic does not fail and does
\* not consult the registry: it returns the diagnostic with exactly one
\* primary label carrying the span as it is.
RendererKeepsOutOfRangeLabel ==
    OutOfRangeRendered =>
        LET sp == get_span(res.val.err).val
        IN  /\ Len(diag.val.labels) = 1
            /\ diag.val.labels[1].style = "Primary"
            /\ diag.val.labels[1].file_id = sp[3]
            /\ diag.val.labels[1].range = [start |-> sp[1], end |-> sp[2]]

RendererOutOfRangeWitness ==
    /\ OutOfRangeRendered
    /\ get_span(res.val.err).val[3] + 1 \notin DOMAIN registry
    /\ Len(diag.val.labels) = 1

\* C9 (or_missing totality): or_missing(None, K) is the error
\* MissingNode(None, K) and or_missing(Some(v), K) is Ok(v).
OrMissingTotality ==
    call.op = "or_missing" =>
        orig.val = IF call.opt.some
                   THEN [ok |-> TRUE, val |-> call.opt.val]
                   ELSE [ok |-> FALSE,
                         err |-> [tag |-> "MissingNode", span |-> None,
                                  expected |-> call.kind]]

OrMissingWitness ==
    /\ call.op = "or_missing"
    /\ call.opt = None
    /\ depth = 0
    /\ res.val.err.tag = "MissingNode"
    /\ res.val.err.span = None

====
